---- MODULE Spec2Model ----
(***************************************************************************)
(* Model of src/lambda_handler.py: the ELB access-log line parser          *)
(* parse_elb_log and the S3 -> Axiom forwarding handler lambda_handler.    *)
(*                                                                         *)
(* A Python str is a sequence of one-character strings.  A value stored in *)
(* a dict carries its run-time type: [str |-> chars] for a str and         *)
(* [dict |-> record] for a nested dict.  A dict itself is a TLA+ record.   *)
(***************************************************************************)
EXTENDS Integers, Sequences, FiniteSets, TLC

VARIABLES
    environ,    \* os.environ: the names that are set and their values
    log_line,   \* parse_elb_log called on its own: the argument
    parsed,     \* parse_elb_log called on its own: the value returned
    body,       \* the S3 object: [n |-> lines, first |-> kind of line 1]
    pc,         \* lambda_handler: the statement reached
    json_logs,  \* lambda_handler: the records parsed so far
    i,          \* lambda_handler: the loop variable of the batch loop
    posts,      \* the sink: the requests answered, [json, status_code]
    log,        \* the logger: the messages written
    result,     \* lambda_handler: the value returned
    raised      \* lambda_handler: the exception propagated to the caller

vars == <<environ, log_line, parsed, body, pc, json_logs, i, posts, log,
          result, raised>>

\* Python's None
None == [none |-> TRUE]

(***************************************************************************)
(* Character classes of Python's re module, over the characters that occur *)
(* in the modelled lines.                                                  *)
(***************************************************************************)
DigitChars == <<"0", "1", "2", "3", "4", "5", "6", "7", "8", "9">>

Digit == {DigitChars[k] : k \in 1..10}

Lower == {"a", "b", "c", "d", "e", "f", "g", "h", "i", "j", "k", "l", "m",
          "n", "o", "p", "q", "r", "s", "t", "u", "v", "w", "x", "y", "z"}

\* [a-z0-9]
LowerAlnum == Lower \cup Digit

\* \s
Space == {" ", "\t", "\n"}

\* the double quote
DQ == "\""

Str(chars) == [str |-> chars]

Dict(d) == [dict |-> d]

IsStr(v) == "str" \in DOMAIN v

DigitVal(c) == (CHOOSE k \in 1..10 : DigitChars[k] = c) - 1

RECURSIVE Concat(_)
Concat(ss) == IF ss = <<>> THEN <<>> ELSE Head(ss) \o Concat(Tail(ss))

\* s[ix:] starts with p
StartsAt(s, ix, p) ==
    /\ ix + Len(p) - 1 <= Len(s)
    /\ \A k \in 1..Len(p) : s[ix + k - 1] = p[k]

\* first index j >= ix such that s[j] is not in class (Len(s)+1 if none):
\* the end of a greedy run  [class]*  started at ix
RECURSIVE RunEnd(_, _, _)
RunEnd(s, ix, class) ==
    IF ix <= Len(s) /\ s[ix] \in class THEN RunEnd(s, ix + 1, class) ELSE ix

\* end of a greedy run of \S started at ix
RECURSIVE NonSpaceEnd(_, _)
NonSpaceEnd(s, ix) ==
    IF ix <= Len(s) /\ s[ix] \notin Space THEN NonSpaceEnd(s, ix + 1) ELSE ix

\* first index j >= ix with s[j] = c, or 0
RECURSIVE IndexOf(_, _, _)
IndexOf(s, ix, c) ==
    IF ix > Len(s) THEN 0
    ELSE IF s[ix] = c THEN ix ELSE IndexOf(s, ix + 1, c)

\* last index j with s[j] = c, or 0
RECURSIVE LastIndexOf(_, _, _)
LastIndexOf(s, ix, c) ==
    IF ix < 1 THEN 0
    ELSE IF s[ix] = c THEN ix ELSE LastIndexOf(s, ix - 1, c)

\* s.rsplit(c, 1) for a string that contains c
rsplit(s, c) ==
    LET j == LastIndexOf(s, Len(s), c)
    IN  <<SubSeq(s, 1, j - 1), SubSeq(s, j + 1, Len(s))>>

\* s.split(c)[-1]
split_last(s, c) ==
    SubSeq(s, LastIndexOf(s, Len(s), c) + 1, Len(s))

\* least element of a non-empty set of integers
Min(S) == CHOOSE j \in S : \A k \in S : j <= k

\* the indices at which p occurs in s
Occurrences(s, p) == {j \in 1..Len(s) : StartsAt(s, j, p)}

\* str.replace scans left to right: the occurrence at j is replaced unless
\* an earlier replaced occurrence covers j (width is the length of old)
RECURSIVE IsReplaced(_, _, _)
IsReplaced(occ, width, j) ==
    /\ j \in occ
    /\ \A k \in 1..(width - 1) : ~IsReplaced(occ, width, j - k)

\* what str.replace writes for the characters lo..hi of s
RECURSIVE ReplaceRange(_, _, _, _, _, _)
ReplaceRange(s, occ, width, new, lo, hi) ==
    IF lo > hi THEN <<>>
    ELSE IF lo = hi THEN
        IF IsReplaced(occ, width, lo) THEN new
        ELSE IF \E k \in 1..(width - 1) : IsReplaced(occ, width, lo - k)
             THEN <<>>
             ELSE <<s[lo]>>
    ELSE LET mid == (lo + hi) \div 2
         IN  ReplaceRange(s, occ, width, new, lo, mid)
             \o ReplaceRange(s, occ, width, new, mid + 1, hi)

\* new inserted before each of the characters lo..hi of s
RECURSIVE InterleaveRange(_, _, _, _)
InterleaveRange(s, lo, hi, new) ==
    IF lo > hi THEN <<>>
    ELSE IF lo = hi THEN new \o <<s[lo]>>
    ELSE LET mid == (lo + hi) \div 2
         IN  InterleaveRange(s, lo, mid, new)
             \o InterleaveRange(s, mid + 1, hi, new)

\* str.replace("", new): new is inserted before every character and at the
\* end
Interleave(s, new) == InterleaveRange(s, 1, Len(s), new) \o new

replace(s, old, new) ==
    IF old = <<>> THEN Interleave(s, new)
    ELSE ReplaceRange(s, Occurrences(s, old), Len(old), new, 1, Len(s))

(***************************************************************************)
(* parse_elb_log, lines 17-20: re.sub over the ingress resource path.      *)
(***************************************************************************)
\* 'app/k8s-default-ingressn-'
IngressPrefix ==
    <<"a", "p", "p", "/", "k", "8", "s", "-", "d", "e", "f", "a", "u", "l",
      "t", "-", "i", "n", "g", "r", "e", "s", "s", "n", "-">>

\* 'app/k8s-default-ingress'
IngressRepl ==
    <<"a", "p", "p", "/", "k", "8", "s", "-", "d", "e", "f", "a", "u", "l",
      "t", "-", "i", "n", "g", "r", "e", "s", "s">>

\* end (exclusive) of a match of
\*   app/k8s-default-ingressn-[a-z0-9]+/[a-z0-9]+   at index ix, or 0
IngressMatchEnd(s, ix) ==
    IF ~StartsAt(s, ix, IngressPrefix) THEN 0
    ELSE LET j  == ix + Len(IngressPrefix)
             e1 == RunEnd(s, j, LowerAlnum)
             e2 == RunEnd(s, e1 + 1, LowerAlnum)
         IN  IF e1 > j /\ e1 <= Len(s) /\ s[e1] = "/" /\ e2 > e1 + 1
             THEN e2 ELSE 0

\* re.sub: the matches are taken left to right and do not overlap
RECURSIVE SubIngressFrom(_, _)
SubIngressFrom(s, ix) ==
    LET starts == {j \in ix..Len(s) : IngressMatchEnd(s, j) # 0}
    IN  IF starts = {} THEN SubSeq(s, ix, Len(s))
        ELSE LET j == Min(starts)
             IN  SubSeq(s, ix, j - 1) \o IngressRepl
                 \o SubIngressFrom(s, IngressMatchEnd(s, j))

normalize_ingress(line) == SubIngressFrom(line, 1)

(***************************************************************************)
(* parse_elb_log, lines 22-54: the grammar.  Each entry is one positional  *)
(* field: its group name ("" when the field is skipped) and its pattern.   *)
(*   S      \S+ \s           (also \S+|- , which matches the same strings) *)
(*   INT    (-?\d+|-) \s                                                   *)
(*   NAT    (\d+|-) \s                                                     *)
(*   DIGITS \d+ \s                                                         *)
(*   Q      "[^"]*" \s                                                     *)
(*   REQ    "(\S+)\s(\S+)\s(\S+)" \s                                       *)
(*   LAST   \S+                                                            *)
(***************************************************************************)
pattern ==
    << <<"type", "S">>,
       <<"time", "S">>,
       <<"", "S">>,
       <<"client_port", "S">>,
       <<"target_port", "S">>,
       <<"request_processing_time", "INT">>,
       <<"target_processing_time", "INT">>,
       <<"response_processing_time", "INT">>,
       <<"elb_status_code", "NAT">>,
       <<"target_status_code", "S">>,
       <<"received_bytes", "NAT">>,
       <<"sent_bytes", "DIGITS">>,
       <<"request", "REQ">>,
       <<"user_agent", "Q">>,
       <<"ssl_cipher", "S">>,
       <<"ssl_protocol", "S">>,
       <<"target_group_arn", "S">>,
       <<"trace_id", "Q">>,
       <<"domain_name", "Q">>,
       <<"", "S">>,
       <<"matched_rule_priority", "S">>,
       <<"request_creation_time", "S">>,
       <<"actions_executed", "Q">>,
       <<"redirect_url", "Q">>,
       <<"error_reason", "Q">>,
       <<"target_port_list", "Q">>,
       <<"target_status_code_list", "Q">>,
       <<"classification", "Q">>,
       <<"classification_reason", "Q">>,
       <<"tid", "LAST">> >>

IsDigits(t) == t # <<>> /\ \A k \in 1..Len(t) : t[k] \in Digit

TokenOk(kind, t) ==
    CASE kind = "INT" ->
            \/ t = <<"-">>
            \/ IsDigits(t)
            \/ (t # <<>> /\ t[1] = "-" /\ IsDigits(Tail(t)))
      [] kind = "NAT" -> t = <<"-">> \/ IsDigits(t)
      [] kind = "DIGITS" -> IsDigits(t)
      [] OTHER -> TRUE

NoMatch == [ok |-> FALSE]

Bind(name, chars) == IF name = "" THEN <<>> ELSE (name :> chars)

\* one positional field matched at index ix: [ok, next, groups]
MatchField(s, ix, name, kind) ==
    IF kind = "Q" THEN
        LET c == IF ix <= Len(s) /\ s[ix] = DQ THEN IndexOf(s, ix + 1, DQ) ELSE 0
        IN  IF c # 0 /\ c + 1 <= Len(s) /\ s[c + 1] \in Space
            THEN [ok |-> TRUE, next |-> c + 2,
                  groups |-> Bind(name, SubSeq(s, ix + 1, c - 1))]
            ELSE NoMatch
    ELSE IF kind = "REQ" THEN
        LET e1 == NonSpaceEnd(s, ix + 1)
            e2 == NonSpaceEnd(s, e1 + 1)
            e3 == NonSpaceEnd(s, e2 + 1)
        IN  IF /\ ix <= Len(s) /\ s[ix] = DQ
               /\ e1 > ix + 1 /\ e1 <= Len(s)
               /\ e2 > e1 + 1 /\ e2 <= Len(s)
               /\ e3 > e2 + 2 /\ e3 <= Len(s) /\ s[e3 - 1] = DQ
            THEN [ok |-> TRUE, next |-> e3 + 1,
                  groups |-> (name :> SubSeq(s, ix + 1, e3 - 2))
                             @@ ("method" :> SubSeq(s, ix + 1, e1 - 1))
                             @@ ("url" :> SubSeq(s, e1 + 1, e2 - 1))
                             @@ ("protocol" :> SubSeq(s, e2 + 1, e3 - 2))]
            ELSE NoMatch
    ELSE
        LET e == NonSpaceEnd(s, ix)
            t == SubSeq(s, ix, e - 1)
        IN  IF e > ix /\ (kind = "LAST" \/ e <= Len(s)) /\ TokenOk(kind, t)
            THEN [ok |-> TRUE, next |-> e + 1, groups |-> Bind(name, t)]
            ELSE NoMatch

\* fields k.. of the pattern matched at index ix, groups collected so far
RECURSIVE MatchFrom(_, _, _, _)
MatchFrom(s, ix, k, groups) ==
    IF k > Len(pattern) THEN [ok |-> TRUE, groups |-> groups]
    ELSE LET m == MatchField(s, ix, pattern[k][1], pattern[k][2])
         IN  IF m.ok THEN MatchFrom(s, m.next, k + 1, groups @@ m.groups)
             ELSE NoMatch

\* re.match(pattern, log_line, re.VERBOSE): anchored at the start only
re_match(s) == MatchFrom(s, 1, 1, <<>>)

(***************************************************************************)
(* parse_elb_log, lines 61-66: datetime.strptime(t, "%Y-%m-%dT%H:%M:%S.%fZ")*)
(* followed by isoformat() + "Z".  strptime compiles the format to one     *)
(* case-insensitive regular expression; every directive is a run of digits *)
(* closed by a literal, so the run is the maximal one.                     *)
(*   entry: <<min digits, max digits, min value, max value, closing chars>>*)
(***************************************************************************)
TimeFormat ==
    << <<4, 4, 0, 9999, {"-"}>>,
       <<1, 2, 1, 12, {"-"}>>,
       <<1, 2, 1, 31, {"T", "t"}>>,
       <<1, 2, 0, 23, {":"}>>,
       <<1, 2, 0, 59, {":"}>>,
       <<1, 2, 0, 61, {"."}>>,
       <<1, 6, 0, 999999, {"Z", "z"}>> >>

RECURSIVE DigitsVal(_)
DigitsVal(t) ==
    IF t = <<>> THEN 0
    ELSE 10 * DigitsVal(SubSeq(t, 1, Len(t) - 1)) + DigitVal(t[Len(t)])

RECURSIVE Pow10(_)
Pow10(k) == IF k = 0 THEN 1 ELSE 10 * Pow10(k - 1)

\* directives k.. matched at index ix: the values read, or <<-1>> on mismatch
RECURSIVE StrptimeFrom(_, _, _)
StrptimeFrom(t, ix, k) ==
    IF k > Len(TimeFormat) THEN (IF ix = Len(t) + 1 THEN <<>> ELSE <<-1>>)
    ELSE LET f == TimeFormat[k]
             e == RunEnd(t, ix, Digit)
             d == SubSeq(t, ix, e - 1)
             v == IF k = 7 THEN DigitsVal(d) * Pow10(6 - Len(d))
                  ELSE DigitsVal(d)
         IN  IF /\ e - ix >= f[1] /\ e - ix <= f[2]
                /\ DigitsVal(d) >= f[3] /\ DigitsVal(d) <= f[4]
                /\ e <= Len(t) /\ t[e] \in f[5]
             THEN LET rest == StrptimeFrom(t, e + 1, k + 1)
                  IN  IF rest = <<-1>> THEN rest ELSE <<v>> \o rest
             ELSE <<-1>>

IsLeap(y) == (y % 4 = 0 /\ y % 100 # 0) \/ y % 400 = 0

DaysInMonth(y, m) ==
    IF m = 2 THEN (IF IsLeap(y) THEN 29 ELSE 28)
    ELSE IF m \in {4, 6, 9, 11} THEN 30 ELSE 31

\* the datetime constructor's range checks
DatetimeOk(v) ==
    /\ v[1] >= 1
    /\ v[3] <= DaysInMonth(v[1], v[2])
    /\ v[6] <= 59

\* "%0<width>d" % n
RECURSIVE Pad(_, _)
Pad(n, width) ==
    IF width = 0 THEN <<>>
    ELSE Pad(n \div 10, width - 1) \o <<DigitChars[(n % 10) + 1]>>

\* datetime.isoformat(): microseconds are printed only when non-zero
isoformat(v) ==
    Pad(v[1], 4) \o <<"-">> \o Pad(v[2], 2) \o <<"-">> \o Pad(v[3], 2)
    \o <<"T">> \o Pad(v[4], 2) \o <<":">> \o Pad(v[5], 2) \o <<":">>
    \o Pad(v[6], 2)
    \o (IF v[7] # 0 THEN <<".">> \o Pad(v[7], 6) ELSE <<>>)

\* lines 62-66: the try/except around strptime
format_timestamp(t) ==
    LET v == StrptimeFrom(t, 1, 1)
    IN  IF v # <<-1>> /\ DatetimeOk(v) THEN isoformat(v) \o <<"Z">> ELSE t

(***************************************************************************)
(* os.environ: a function from the names that are set to their values.     *)
(***************************************************************************)
\* os.environ.get(name, default)
environ_get(env, name, default) ==
    IF name \in DOMAIN env THEN env[name] ELSE default

\* 'CERT_ARN'
CertPlaceholder == <<"C", "E", "R", "T", "_", "A", "R", "N">>

\* 'ACCOUNT_ID'
AccountPlaceholder == <<"A", "C", "C", "O", "U", "N", "T", "_", "I", "D">>

\* 'Failed to parse log line'
ParseErrorText ==
    <<"F", "a", "i", "l", "e", "d", " ", "t", "o", " ", "p", "a", "r",
      "s", "e", " ", "l", "o", "g", " ", "l", "i", "n", "e">>

(***************************************************************************)
(* parse_elb_log, lines 68-89.                                             *)
(***************************************************************************)
\* lines 69-70: (address, port) of a combined field
split_address(v) ==
    IF IndexOf(v, 1, ":") # 0 THEN rsplit(v, ":") ELSE <<v, <<>>>>

\* line 73
service_of(arn) == IF arn # <<"-">> THEN split_last(arn, "/") ELSE <<>>

\* a normalisation that keeps the sentinel
normalize_value_keeping(value) == Str(value)

\* line 81: the value stored for one key
normalize_value(value) == IF value = <<"-">> THEN Str(<<>>) ELSE Str(value)

\* lines 68-77: the dict after the address split, the service extraction and
\* the two deletions
split_fields(g) ==
    LET kept == DOMAIN g \ {"time", "target_group_arn",
                            "client_port", "target_port"}
    IN  [k \in kept |-> g[k]]
        @@ ("client" :> split_address(g["client_port"])[1])
        @@ ("client_port" :> split_address(g["client_port"])[2])
        @@ ("target" :> split_address(g["target_port"])[1])
        @@ ("target_port" :> split_address(g["target_port"])[2])
        @@ ("service" :> service_of(g["target_group_arn"]))

\* lines 80-81: the loop over result.items()
normalize_empty(d) == [k \in DOMAIN d |-> normalize_value(d[k])]

\* line 84, applied to the line as reassigned at line 18
sanitize_raw_log(line, env) ==
    replace(replace(line, environ_get(env, "CERT_ARN", <<>>), CertPlaceholder),
            environ_get(env, "ACCOUNT_ID", <<>>), AccountPlaceholder)

\* a failure record without the error marker
failure_record_unmarked == ("_time" :> Str(<<>>))

\* line 57
failure_record ==
    ("_time" :> Str(<<>>)) @@ ("data" :> Dict([error |-> Str(ParseErrorText)]))

\* line is the argument; normalized is log_line as reassigned at line 18
parse_elb_log(line, env) ==
    LET normalized == normalize_ingress(line)
        match      == re_match(normalized)
    IN  IF ~match.ok THEN failure_record
        ELSE ("_time" :> Str(format_timestamp(match.groups["time"])))
             @@ normalize_empty(split_fields(match.groups))
             @@ ("raw_log" :> Str(sanitize_raw_log(normalized, env)))

(***************************************************************************)
(* Inputs: log lines assembled from field values, and the environment.     *)
(***************************************************************************)
\* '2023-01-15T10:30:00.123456Z'
TimeIso ==
    <<"2", "0", "2", "3", "-", "0", "1", "-", "1", "5", "T", "1", "0",
      ":", "3", "0", ":", "0", "0", ".", "1", "2", "3", "4", "5",
      "6", "Z">>

\* '2023-1-5t1:02:03.5z'
TimeShortFraction ==
    <<"2", "0", "2", "3", "-", "1", "-", "5", "t", "1", ":", "0", "2",
      ":", "0", "3", ".", "5", "z">>

\* '2024-02-29T23:59:59.000Z'
TimeZeroFraction ==
    <<"2", "0", "2", "4", "-", "0", "2", "-", "2", "9", "T", "2", "3",
      ":", "5", "9", ":", "5", "9", ".", "0", "0", "0", "Z">>

\* '2023-02-30T10:30:00.1Z'
TimeBadDay ==
    <<"2", "0", "2", "3", "-", "0", "2", "-", "3", "0", "T", "1", "0",
      ":", "3", "0", ":", "0", "0", ".", "1", "Z">>

\* 'not-a-time'
TimeNotATime ==
    <<"n", "o", "t", "-", "a", "-", "t", "i", "m", "e">>

\* '-'
Sentinel ==
    <<"-">>

\* 'app/k8s-default-ingressn-a1/b2'
ElbIngress ==
    <<"a", "p", "p", "/", "k", "8", "s", "-", "d", "e", "f", "a", "u",
      "l", "t", "-", "i", "n", "g", "r", "e", "s", "s", "n", "-",
      "a", "1", "/", "b", "2">>

\* 'app/lb/c3'
ElbPlain ==
    <<"a", "p", "p", "/", "l", "b", "/", "c", "3">>

\* '10.0.0.1:443'
ClientAddr ==
    <<"1", "0", ".", "0", ".", "0", ".", "1", ":", "4", "4", "3">>

\* '-:80'
ClientNoAddr ==
    <<"-", ":", "8", "0">>

\* '[::1]:80'
TargetAddr ==
    <<"[", ":", ":", "1", "]", ":", "8", "0">>

\* '10.0.0.2'
TargetNoPort ==
    <<"1", "0", ".", "0", ".", "0", ".", "2">>

\* 'arn:elb:123456:tg/svc/abc1'
TgArn ==
    <<"a", "r", "n", ":", "e", "l", "b", ":", "1", "2", "3", "4", "5",
      "6", ":", "t", "g", "/", "s", "v", "c", "/", "a", "b", "c", "1">>

\* 'tg/-'
TgArnDash ==
    <<"t", "g", "/", "-">>

\* 'arn:acm:123456:cert/c9'
CertArn ==
    <<"a", "r", "n", ":", "a", "c", "m", ":", "1", "2", "3", "4", "5",
      "6", ":", "c", "e", "r", "t", "/", "c", "9">>

\* '123456'
AccountId ==
    <<"1", "2", "3", "4", "5", "6">>

\* 'ARN'
SecretInPlaceholder ==
    <<"A", "R", "N">>

\* 'h2'
Head1 ==
    <<"h", "2">>

\* '1 0 200 200 7 9 "GET /x?a=123456 H/1" "curl 8" - TLS'
Mid1 ==
    <<"1", " ", "0", " ", "2", "0", "0", " ", "2", "0", "0", " ", "7",
      " ", "9", " ", DQ, "G", "E", "T", " ", "/", "x", "?", "a", "=",
      "1", "2", "3", "4", "5", "6", " ", "H", "/", "1", DQ, " ", DQ,
      "c", "u", "r", "l", " ", "8", DQ, " ", "-", " ", "T", "L", "S">>

\* '"Root=1" "-"'
Mid2 ==
    <<DQ, "R", "o", "o", "t", "=", "1", DQ, " ", DQ, "-", DQ>>

\* '0 - "forward" "-" "-" "[::1]:80" "200" "-" "-" T1\n'
Tail1 ==
    <<"0", " ", "-", " ", DQ, "f", "o", "r", "w", "a", "r", "d", DQ, " ",
      DQ, "-", DQ, " ", DQ, "-", DQ, " ", DQ, "[", ":", ":", "1",
      "]", ":", "8", "0", DQ, " ", DQ, "2", "0", "0", DQ, " ", DQ,
      "-", DQ, " ", DQ, "-", DQ, " ", "T", "1", "\n">>

\* 'garbage " line\n'
Garbage ==
    <<"g", "a", "r", "b", "a", "g", "e", " ", DQ, " ", "l", "i", "n",
      "e", "\n">>

TimeTokens ==
    {TimeIso, TimeShortFraction, TimeZeroFraction, TimeBadDay, TimeNotATime,
     Sentinel}

\* a line in the access-log layout, fields separated by sep
MkLine(sep, time, elb, client, target, rpt, tg, cert) ==
    Concat(<<Head1, sep, time, <<" ">>, elb, <<" ">>, client, <<" ">>,
             target, <<" ">>, rpt, <<" ">>, Mid1, <<" ">>, tg, <<" ">>,
             Mid2, <<" ">>, cert, <<" ">>, Tail1>>)

WellFormedLines ==
    {MkLine(<<" ">>, time, elb, client, target, rpt, tg, cert) :
        time \in TimeTokens,
        elb \in {ElbIngress, ElbPlain},
        client \in {ClientAddr, ClientNoAddr, Sentinel},
        target \in {TargetAddr, TargetNoPort, Sentinel},
        rpt \in {<<"-", "1">>, Sentinel},
        tg \in {TgArn, TgArnDash, Sentinel},
        cert \in {CertArn, Sentinel}}

BaseLine ==
    MkLine(<<" ">>, TimeIso, ElbIngress, ClientAddr, TargetAddr, <<"0">>,
           TgArn, CertArn)

\* every truncation of the base line, from the empty line to the full one
TruncatedLines == {SubSeq(BaseLine, 1, k) : k \in 0..Len(BaseLine)}

OddLines ==
    {Garbage,
     \* a tab as the first separator
     MkLine(<<"\t">>, TimeIso, ElbPlain, ClientAddr, TargetAddr, <<"0">>,
            TgArn, CertArn),
     \* two spaces after the first field
     MkLine(<<" ", " ">>, TimeIso, ElbPlain, ClientAddr, TargetAddr, <<"0">>,
            TgArn, CertArn),
     \* a processing time that is not a number
     MkLine(<<" ">>, TimeIso, ElbPlain, ClientAddr, TargetAddr, <<"0", ".", "1">>,
            TgArn, CertArn)}

Lines == WellFormedLines \cup TruncatedLines \cup OddLines

\* the environments of a call of parse_elb_log: each of CERT_ARN and
\* ACCOUNT_ID is unset, set to its identifier (the certificate reference
\* contains the account number) or set to a string that occurs in a
\* placeholder
SecretEnvirons ==
    {e \in UNION {[names -> {CertArn, AccountId, SecretInPlaceholder}] :
                     names \in SUBSET {"CERT_ARN", "ACCOUNT_ID"}} :
        /\ environ_get(e, "CERT_ARN", <<>>) # AccountId
        /\ environ_get(e, "ACCOUNT_ID", <<>>) # CertArn}

(***************************************************************************)
(* parse_elb_log as a function of one line and the two redaction secrets.  *)
(***************************************************************************)
InitParse ==
    /\ environ \in SecretEnvirons
    /\ log_line \in Lines
    /\ parsed = None
    /\ body = [n |-> 0, first |-> 1]
    /\ pc = "parse"
    /\ json_logs = <<>>
    /\ i = 0
    /\ posts = <<>>
    /\ log = <<>>
    /\ result = None
    /\ raised = None

Parse ==
    /\ pc = "parse"
    /\ parsed = None
    /\ parsed' = parse_elb_log(log_line, environ)
    /\ UNCHANGED <<environ, log_line, body, pc, json_logs, i, posts, log,
                   result, raised>>

NextParse == Parse

SpecParse == InitParse /\ [][NextParse]_vars

(***************************************************************************)
(* lambda_handler.                                                         *)
(***************************************************************************)
\* line 114
batch_size == 50

\* the largest number of full batches in an object
MaxBatches == 2

\* the status codes the sink answers with
StatusCodes == {200, 204, 500}

\* 'h2 - app/lb/c3 - - - - - - - - 0 "- - -" "-" - - - "-" "-" - - - "-" "-" "-" "-" "-" "-" "-" -\n'
SentinelLine ==
    <<"h", "2", " ", "-", " ", "a", "p", "p", "/", "l", "b", "/", "c",
      "3", " ", "-", " ", "-", " ", "-", " ", "-", " ", "-", " ",
      "-", " ", "-", " ", "-", " ", "0", " ", DQ, "-", " ", "-", " ",
      "-", DQ, " ", DQ, "-", DQ, " ", "-", " ", "-", " ", "-", " ",
      DQ, "-", DQ, " ", DQ, "-", DQ, " ", "-", " ", "-", " ", "-",
      " ", DQ, "-", DQ, " ", DQ, "-", DQ, " ", DQ, "-", DQ, " ", DQ,
      "-", DQ, " ", DQ, "-", DQ, " ", DQ, "-", DQ, " ", DQ, "-", DQ,
      " ", "-", "\n">>

\* the lines an object is made of, repeated in this order
SourceKinds == <<BaseLine, Garbage, SentinelLine>>

\* line p (from 1) of the object
LineAt(b, p) == SourceKinds[((b.first + p - 2) % Len(SourceKinds)) + 1]

\* the lines of the object, in order
SourceLines(b) == [p \in 1..b.n |-> LineAt(b, p)]

\* objects of about 0, 1, .. MaxBatches full batches
Bodies ==
    {[n |-> k * batch_size + d, first |-> f] :
        k \in 0..MaxBatches, d \in {-1, 0, 1}, f \in 1..Len(SourceKinds)}
    \ {[n |-> -1, first |-> f] : f \in 1..Len(SourceKinds)}

\* the configured environment, and two with a name missing
FullEnviron ==
    ("CERT_ARN" :> CertArn) @@ ("ACCOUNT_ID" :> AccountId)
    @@ ("DATASET_NAME" :> <<"d", "s">>) @@ ("AXIOM_API_TOKEN" :> <<"t", "k">>)

HandlerEnvirons ==
    {FullEnviron,
     [k \in DOMAIN FullEnviron \ {"DATASET_NAME"} |-> FullEnviron[k]],
     [k \in DOMAIN FullEnviron \ {"AXIOM_API_TOKEN"} |-> FullEnviron[k]]}

\* str(n) for n >= 0
RECURSIVE Decimal(_)
Decimal(n) ==
    IF n < 10 THEN <<DigitChars[n + 1]>>
    ELSE Decimal(n \div 10) \o <<DigitChars[(n % 10) + 1]>>

\* seq[lo:hi], a Python slice with 0 <= lo
Slice(seq, lo, hi) ==
    SubSeq(seq, lo + 1, IF hi < Len(seq) THEN hi ELSE Len(seq))

\* 'Processed '
ProcessedText ==
    <<"P", "r", "o", "c", "e", "s", "s", "e", "d", " ">>

\* ' logs'
LogsText ==
    <<" ", "l", "o", "g", "s">>

\* 'Batch '
BatchText ==
    <<"B", "a", "t", "c", "h", " ">>

\* ' failed: '
FailedText ==
    <<" ", "f", "a", "i", "l", "e", "d", ":", " ">>

\* 'Error: '
ErrorText ==
    <<"E", "r", "r", "o", "r", ":", " ">>

\* a slice one record short
batch_at_short(logs, start) == Slice(logs, start, start + batch_size - 1)

\* line 116
batch_at(logs, start) == Slice(logs, start, start + batch_size)

\* line 123
batch_failed_message(start, status_code) ==
    BatchText \o Decimal((start \div batch_size) + 1) \o FailedText
    \o Decimal(status_code)

\* a summary that counts only the lines that parsed
summary_of_parsed(logs) ==
    [statusCode |-> 200,
     message |-> ProcessedText
                 \o Decimal(Cardinality({p \in 1..Len(logs) :
                                            "data" \notin DOMAIN logs[p]}))
                 \o LogsText]

\* line 125
summary(logs) ==
    [statusCode |-> 200,
     message |-> ProcessedText \o Decimal(Len(logs)) \o LogsText]

\* lines 127-129: the exception is logged and re-raised
Abort(e) ==
    /\ log' = Append(log, [level |-> "ERROR", message |-> ErrorText \o e.text])
    /\ raised' = e
    /\ pc' = "aborted"

Init ==
    /\ environ \in HandlerEnvirons
    /\ body \in Bodies
    /\ log_line = <<>>
    /\ parsed = None
    /\ pc = "get_object"
    /\ json_logs = <<>>
    /\ i = 0
    /\ posts = <<>>
    /\ log = <<>>
    /\ result = None
    /\ raised = None

\* lines 98-101: the object is retrieved
GetObject ==
    /\ pc = "get_object"
    /\ pc' = "read"
    /\ UNCHANGED <<environ, log_line, parsed, body, json_logs, i, posts, log,
                   result, raised>>

\* lines 102-104: one line is read from the stream, parsed and appended
ReadLine ==
    /\ pc = "read"
    /\ Len(json_logs) < body.n
    /\ json_logs' =
          Append(json_logs,
                 parse_elb_log(LineAt(body, Len(json_logs) + 1), environ))
    /\ UNCHANGED <<environ, log_line, parsed, body, pc, i, posts, log, result,
                   raised>>

\* a stream failure that is logged and then treated as the end of the stream
StreamRaisesSwallowed ==
    /\ pc \in {"get_object", "read"}
    /\ \E type \in {"ClientError", "BadGzipFile"} :
          /\ (type = "ClientError") = (pc = "get_object")
          /\ raised' = [type |-> type, text |-> <<"s", "3">>]
          /\ log' = Append(log, [level |-> "ERROR",
                                 message |-> ErrorText \o <<"s", "3">>])
    /\ pc' = "send"
    /\ i' = 0
    /\ UNCHANGED <<environ, log_line, parsed, body, json_logs, posts, result>>

\* lines 98-103: retrieval, decompression or decoding raises, before the
\* first line, between two lines or at the end of the stream
StreamRaises ==
    /\ pc \in {"get_object", "read"}
    /\ \E type \in {"ClientError", "BadGzipFile"} :
          /\ (type = "ClientError") = (pc = "get_object")
          /\ Abort([type |-> type, text |-> <<"s", "3">>])
    /\ UNCHANGED <<environ, log_line, parsed, body, json_logs, i, posts,
                   result>>

\* lines 102, 107-111: the stream is exhausted; the dataset name and the
\* token are read from the environment
Prepare ==
    /\ pc = "read"
    /\ Len(json_logs) = body.n
    /\ {"DATASET_NAME", "AXIOM_API_TOKEN"} \subseteq DOMAIN environ
    /\ pc' = "send"
    /\ i' = 0
    /\ UNCHANGED <<environ, log_line, parsed, body, json_logs, posts, log,
                   result, raised>>

\* lines 107, 109: os.environ[...] raises KeyError
PrepareRaises ==
    /\ pc = "read"
    /\ Len(json_logs) = body.n
    /\ ~({"DATASET_NAME", "AXIOM_API_TOKEN"} \subseteq DOMAIN environ)
    /\ Abort([type |-> "KeyError", text |-> <<"k", "e", "y">>])
    /\ UNCHANGED <<environ, log_line, parsed, body, json_logs, i, posts,
                   result>>

\* a loop that stops at the first answer other than 200
PostStoppingOnFailure ==
    /\ pc = "send"
    /\ i < Len(json_logs)
    /\ \E status_code \in StatusCodes :
          /\ posts' = Append(posts, [json |-> batch_at(json_logs, i),
                                     status_code |-> status_code])
          /\ log' = IF status_code # 200
                    THEN Append(log,
                                [level |-> "INFO",
                                 message |-> batch_failed_message(i, status_code)])
                    ELSE log
          /\ i' = IF status_code # 200 THEN Len(json_logs) ELSE i + batch_size
    /\ UNCHANGED <<environ, log_line, parsed, body, pc, json_logs, result,
                   raised>>

\* lines 115-123: one batch is posted and the sink answers
Post ==
    /\ pc = "send"
    /\ i < Len(json_logs)
    /\ \E status_code \in StatusCodes :
          /\ posts' = Append(posts, [json |-> batch_at(json_logs, i),
                                     status_code |-> status_code])
          /\ log' = IF status_code # 200
                    THEN Append(log,
                                [level |-> "INFO",
                                 message |-> batch_failed_message(i, status_code)])
                    ELSE log
    /\ i' = i + batch_size
    /\ UNCHANGED <<environ, log_line, parsed, body, pc, json_logs, result,
                   raised>>

\* an exception of the sink that is logged while the loop goes on
PostRaisesSwallowed ==
    /\ pc = "send"
    /\ i < Len(json_logs)
    /\ raised' = [type |-> "ConnectionError", text |-> <<"n", "e", "t">>]
    /\ log' = Append(log, [level |-> "ERROR",
                           message |-> ErrorText \o <<"n", "e", "t">>])
    /\ i' = i + batch_size
    /\ UNCHANGED <<environ, log_line, parsed, body, pc, json_logs, posts,
                   result>>

\* lines 117-121: requests.post raises
PostRaises ==
    /\ pc = "send"
    /\ i < Len(json_logs)
    /\ Abort([type |-> "ConnectionError", text |-> <<"n", "e", "t">>])
    /\ UNCHANGED <<environ, log_line, parsed, body, json_logs, i, posts,
                   result>>

\* lines 115, 125: the loop is over and the summary is returned
Return ==
    /\ pc = "send"
    /\ i >= Len(json_logs)
    /\ result' = summary(json_logs)
    /\ pc' = "returned"
    /\ UNCHANGED <<environ, log_line, parsed, body, json_logs, i, posts, log,
                   raised>>

Next ==
    \/ GetObject
    \/ ReadLine
    \/ StreamRaises
    \/ Prepare
    \/ PrepareRaises
    \/ Post
    \/ PostRaises
    \/ Return

Spec == Init /\ [][Next]_vars

(***************************************************************************)
(* Properties.                                                             *)
(***************************************************************************)
\* ceil(n / batch_size)
NumBatches(n) == (n + batch_size - 1) \div batch_size

\* the records of the requests made so far, in the order they were sent
RECURSIVE Payload(_)
Payload(ps) == IF ps = <<>> THEN <<>> ELSE Head(ps).json \o Payload(Tail(ps))

\* the line matches the grammar
Matches(line) == re_match(normalize_ingress(line)).ok

\* the groups of a line that matches the grammar
Groups(line) == re_match(normalize_ingress(line)).groups

KindMatches == [k \in 1..Len(SourceKinds) |-> Matches(SourceKinds[k])]

\* line p of the object matches the grammar
LineMatches(b, p) == KindMatches[((b.first + p - 2) % Len(SourceKinds)) + 1]

IsFailureRecord(r) ==
    /\ r["_time"] = Str(<<>>)
    /\ "data" \in DOMAIN r
    /\ "error" \in DOMAIN r["data"].dict

StreamErrors == {"ClientError", "BadGzipFile"}

\* C1: when the handler returns, it has made ceil(n / batch_size) requests;
\* request k carries the records at positions (k-1)*batch_size + 1 ..
\* min(k*batch_size, n) in their order, at most batch_size of them, and the
\* requests concatenated are the whole sequence of records.
C1_ContiguousBatches ==
    pc = "returned" =>
        LET n == Len(json_logs)
        IN  /\ Len(posts) = NumBatches(n)
            /\ \A k \in 1..Len(posts) :
                  LET lo == (k - 1) * batch_size
                      hi == IF k * batch_size < n THEN k * batch_size ELSE n
                  IN  /\ Len(posts[k].json) = hi - lo
                      /\ Len(posts[k].json) <= batch_size
                      /\ \A j \in 1..(hi - lo) :
                            posts[k].json[j] = json_logs[lo + j]
            /\ Payload(posts) = json_logs

\* C1 witness: 101 records were sent as batches of 50, 50 and 1.
C1_Witness ==
    /\ pc = "returned"
    /\ Len(json_logs) = 2 * batch_size + 1
    /\ Len(posts) = 3
    /\ Len(posts[1].json) = batch_size
    /\ Len(posts[3].json) = 1

\* C2: whatever the sink answers, the requests made so far are the first
\* batches, each once and in increasing order, the loop variable stands at
\* the next batch, and when the handler returns every batch has been sent.
C2_EveryBatchOnceInOrder ==
    /\ pc \in {"send", "returned"} =>
          /\ i = Len(posts) * batch_size
          /\ \A k \in 1..Len(posts) :
                posts[k].json = Slice(json_logs, (k - 1) * batch_size,
                                      k * batch_size)
    /\ pc = "returned" =>
          Len(posts) * batch_size >= Len(json_logs)

\* C2 witness: the first two of three batches were refused and the third
\* was sent all the same.
C2_Witness ==
    /\ pc = "returned"
    /\ Len(posts) = 3
    /\ posts[1].status_code = 500
    /\ posts[2].status_code = 204
    /\ posts[3].status_code = 200

\* C3: the value returned holds a list of outcomes, one entry per request
\* in order, whose entry is marked failed exactly when the sink answered
\* with a status other than success.
C3_OutcomesReturned ==
    pc = "returned" =>
        /\ "batchOutcomes" \in DOMAIN result
        /\ Len(result.batchOutcomes) = Len(posts)
        /\ \A k \in 1..Len(posts) :
              result.batchOutcomes[k].success = (posts[k].status_code = 200)

\* C4: when the handler returns, the count in the summary is the number of
\* lines of the object, whatever the sink answered and however many lines
\* failed to parse.
C4_CountIsLinesRead ==
    pc = "returned" =>
        result.message = ProcessedText \o Decimal(body.n) \o LogsText

\* C4 witness: 101 lines, some of them unparseable, a refused batch.
C4_Witness ==
    /\ pc = "returned"
    /\ body.n = 2 * batch_size + 1
    /\ \E p \in 1..body.n : ~LineMatches(body, p)
    /\ \E k \in 1..Len(posts) : posts[k].status_code # 200

\* C5: record p comes from line p; a line that does not match the grammar
\* gives a failure record (empty _time, error marker) and no other line
\* does; and when the handler returns, the payload sent holds one record per
\* line, the record of line p at position p.
C5_OneRecordPerLine ==
    /\ Len(json_logs) <= body.n
    /\ \A p \in 1..Len(json_logs) :
          IsFailureRecord(json_logs[p]) = ~LineMatches(body, p)
    /\ pc = "returned" =>
          /\ Len(Payload(posts)) = body.n
          /\ \A p \in 1..body.n :
                /\ Payload(posts)[p] = json_logs[p]
                /\ ~LineMatches(body, p) => IsFailureRecord(Payload(posts)[p])

\* C5 witness: a run returned after sending a failure record in the middle
\* of its second batch.
C5_Witness ==
    /\ pc = "returned"
    /\ Len(posts) >= 2
    /\ \E j \in 2..(Len(posts[2].json) - 1) :
          /\ ~LineMatches(body, batch_size + j)
          /\ IsFailureRecord(posts[2].json[j])
          /\ ~IsFailureRecord(posts[2].json[j - 1])

SecretCount(s, secret) ==
    IF secret = <<>> THEN 0 ELSE Cardinality(Occurrences(s, secret))

\* C7: raw_log of a matching line contains neither secret, and holds as many
\* placeholders as the line holds occurrences of the secrets.
C7_Redacted ==
    (parsed # None /\ Matches(log_line)) =>
        LET cert    == environ_get(environ, "CERT_ARN", <<>>)
            account == environ_get(environ, "ACCOUNT_ID", <<>>)
            raw     == parsed["raw_log"].str
        IN  /\ SecretCount(raw, cert) = 0
            /\ SecretCount(raw, account) = 0
            /\ Cardinality(Occurrences(raw, CertPlaceholder))
               + Cardinality(Occurrences(raw, AccountPlaceholder))
               = SecretCount(log_line, cert) + SecretCount(log_line, account)

\* C8 as stated: when the stream fails, no line has been parsed, no request
\* has been made, and the failure is propagated instead of a summary.
C8_StreamFailureBeforeParsing ==
    (raised # None /\ raised.type \in StreamErrors) =>
        /\ json_logs = <<>>
        /\ posts = <<>>
        /\ pc = "aborted"
        /\ result = None

\* C8 amended: when the stream fails, no request has been made and none
\* will be, and the failure is logged and propagated instead of a summary
\* (lines read before the failure have been parsed).
C8_StreamFailureAborts ==
    (raised # None /\ raised.type \in StreamErrors) =>
        /\ posts = <<>>
        /\ pc = "aborted"
        /\ result = None
        /\ log # <<>>
        /\ log[Len(log)] = [level |-> "ERROR",
                            message |-> ErrorText \o raised.text]

\* C8 witness: the stream failed after lines had been parsed.
C8_Witness ==
    /\ raised # None
    /\ raised.type = "BadGzipFile"
    /\ pc = "aborted"
    /\ Len(json_logs) > batch_size
    /\ Len(json_logs) < body.n

\* C9: every record sent has a _time field and every field of it is a
\* string, none a nested object.
C9_FlatRecords ==
    \A k \in 1..Len(posts) :
        \A j \in 1..Len(posts[k].json) :
            /\ "_time" \in DOMAIN posts[k].json[j]
            /\ \A f \in DOMAIN posts[k].json[j] : IsStr(posts[k].json[j][f])

\* C10: when the call for a batch raises, the run is aborted: the batches
\* before it have been sent and stay sent, no later batch is, the exception
\* is logged and propagated, and no summary is returned.
C10_SinkExceptionAborts ==
    (raised # None /\ raised.type = "ConnectionError") =>
        /\ pc = "aborted"
        /\ result = None
        /\ i < Len(json_logs)
        /\ Len(posts) = i \div batch_size
        /\ \A k \in 1..Len(posts) :
              posts[k].json = Slice(json_logs, (k - 1) * batch_size,
                                    k * batch_size)
        /\ log # <<>>
        /\ log[Len(log)] = [level |-> "ERROR",
                            message |-> ErrorText \o raised.text]

\* C10 witness: the call for the second of three batches raised.
C10_Witness ==
    /\ raised # None
    /\ raised.type = "ConnectionError"
    /\ pc = "aborted"
    /\ Len(posts) = 1
    /\ Len(json_logs) = 2 * batch_size + 1

====
